---- MODULE Spec2Model ----
(***************************************************************************)
(* Model of interactive_homography.py: the InteractiveHomography session   *)
(* (click collection on a half-size preview, corner finalisation,          *)
(* perspective transform) and the top-level interactive_transform driver.  *)
(*                                                                         *)
(* Image buffers live in a small heap (buf); the object's attributes hold  *)
(* references into it, so aliasing between the source image and the        *)
(* preview is something the model can express.  Coordinates that pass      *)
(* through numpy float32 arrays are rounded as single precision rounds.    *)
(***************************************************************************)
EXTENDS Integers, Sequences, FiniteSets, TLC

\* ---------------------------------------------------------------- bounds
\* Preview-space click positions: the columns 0 .. MaxX and one far column,
\* the top row and one far row (the preview of a photo a few thousand pixels
\* wide).
MaxX == 1
FarX == 1694
FarY == 1166
\* Number of left-button-down events delivered to the callback in one session.
MaxClicks == 5
\* Largest component of the translation vectors tried on a corner set.
MaxShift == 2

ClickXs == (0 .. MaxX) \cup {FarX}
ClickYs == {0, FarY}

\* cv2 mouse event kinds delivered to the callback.
Events == {"EVENT_LBUTTONDOWN", "EVENT_MOUSEMOVE"}

\* Outcomes of the cv2 calls made by transform: both return, findHomography
\* raises, or warpPerspective raises.
CvOutcomes == {"ok", "findHomography_raises", "warpPerspective_raises"}

None_ == "None"

\* ------------------------------------------------------- float arithmetic
RECURSIVE Pow2(_)
Pow2(k) == IF k = 0 THEN 1 ELSE 2 * Pow2(k - 1)

\* Largest k with 2^k <= n, for n >= 1.
RECURSIVE Log2Floor(_)
Log2Floor(n) == IF n < 2 THEN 0 ELSE 1 + Log2Floor(n \div 2)

\* Significand width of IEEE single precision.
F32Bits == 24

\* Every integer of smaller magnitude is a single-precision value.
F32Exact == Pow2(F32Bits)

\* Round-to-nearest-even of a natural number to single precision.
F32RoundNat(n) ==
    IF n < F32Exact THEN n
    ELSE LET q  == Pow2(Log2Floor(n) - (F32Bits - 1))
             lo == (n \div q) * q
             r  == n - lo
         IN  IF 2 * r < q THEN lo
             ELSE IF 2 * r > q THEN lo + q
             ELSE IF (lo \div q) % 2 = 0 THEN lo ELSE lo + q

\* An integer stored into a dtype="float32" array.
F32(n) == IF n >= 0 THEN F32RoundNat(n) ELSE -F32RoundNat(-n)

\* Variant: the preview ratio itself is applied instead of its inverse.
scale_factor_preview == <<1, 2>>

\* A Python float as a rational <<numerator, denominator>>, denominator > 0.
scale_factor == <<2, 1>>

\* int * float
FMul(x, f) == <<x * f[1], f[2]>>

\* Python int(float): truncation toward zero.
PyInt(f) == IF f[1] >= 0 THEN f[1] \div f[2] ELSE -((-f[1]) \div f[2])

\* floor(sqrt(s)) by bisection; lo*lo <= s < hi*hi.
RECURSIVE ISqrtBetween(_, _, _)
ISqrtBetween(lo, hi, s) ==
    IF hi - lo <= 1 THEN lo
    ELSE LET mid == (lo + hi) \div 2
         IN  IF mid * mid <= s THEN ISqrtBetween(mid, hi, s)
             ELSE ISqrtBetween(lo, mid, s)

\* floor(sqrt(s)) for 0 <= s < 46340 * 46340.
ISqrt(s) == ISqrtBetween(0, 46340, s)

\* int(np.sqrt(s)) for a float32 s holding a natural number: the correctly
\* rounded single-precision root, truncated.  With e = floor(sqrt(s)) and
\* n = e + 1, the root rounds up to n exactly when sqrt(s) lies above the
\* midpoint between n and the float just below n, i.e. when
\* (n*n - s) * 2^(23-k) <= e for 2^k < n < 2^(k+1) (2^(24-k) when n = 2^k).
IntSqrt32(s) ==
    IF s = 0 THEN 0
    ELSE LET e == ISqrt(s)
             n == e + 1
             D == n * n - s
             k == Log2Floor(n)
             g == IF n = Pow2(k) THEN F32Bits - k ELSE F32Bits - 1 - k
         IN  IF D <= e /\ D * Pow2(g) <= e THEN n ELSE e

\* int(np.linalg.norm(p - q)) for two rows p, q of a float32 array:
\* float32 subtraction, float32 dot product, float32 square root.
NormInt(p, q) ==
    LET dx == F32(p[1] - q[1])
        dy == F32(p[2] - q[2])
        sq == F32(F32(dx * dx) + F32(dy * dy))
    IN  IntSqrt32(sq)

Max(a, b) == IF a >= b THEN a ELSE b

\* np.array(points, dtype="float32")
ToFloat32(points) == [i \in 1 .. Len(points) |-> <<F32(points[i][1]), F32(points[i][2])>>]

VARIABLES
    pc,                \* position in interactive_transform
    error,             \* the exception that ended the run, or None_
    steps,             \* the stages of interactive_transform completed so far
    buf,               \* heap of image buffers, indexed by reference
    image,             \* self.image (reference, 0 = unset)
    original_image,    \* self.original_image
    display_image,     \* self.display_image
    corners,           \* self.corners: preview-space points
    original_corners,  \* self.original_corners: source-space points
    window,            \* what imshow last put in the window, or NoPixels
    left_clicks,       \* number of left-button-down events delivered so far
    ret_corners,       \* value returned by select_corners (<<>> = none yet)
    max_width,         \* transform's canvas width (-1 = not computed)
    max_height,        \* transform's canvas height
    dst,               \* destination quadrilateral given to findHomography
    H,                 \* homography returned by findHomography, or None_
    warped,            \* reference to the warped image (0 = unset)
    out_file           \* content written by imwrite, or NoPixels

vars == <<pc, error, steps, buf, image, original_image, display_image, corners,
          original_corners, window, left_clicks, ret_corners, max_width,
          max_height, dst, H, warped, out_file>>

session   == <<buf, image, original_image, display_image, corners,
               original_corners, window, left_clicks>>
rectified == <<max_width, max_height, dst, H, warped>>

\* ------------------------------------------------------------- buffers
Pixels(what) == [pixels |-> what, overlay |-> <<>>]

\* No image: a closed window, a file not written.
NoPixels == Pixels("none")

DrawOp(op, p, q, label) == [op |-> op, p |-> p, q |-> q, label |-> label]

\* A drawing call mutates the buffer a reference points to, in place.
Draw(heap, ref, ops) == [heap EXCEPT ![ref].overlay = @ \o ops]

Init ==
    /\ pc = "init"
    /\ error = None_
    /\ steps = <<>>
    /\ buf = <<>>
    /\ image = 0
    /\ original_image = 0
    /\ display_image = 0
    /\ corners = <<>>
    /\ original_corners = <<>>
    /\ window = NoPixels
    /\ left_clicks = 0
    /\ ret_corners = <<>>
    /\ max_width = -1
    /\ max_height = -1
    /\ dst = <<>>
    /\ H = None_
    /\ warped = 0
    /\ out_file = NoPixels

Raise(what) ==
    /\ pc' = "raised"
    /\ error' = what

\* InteractiveHomography.__init__: imread, copy, resize, empty point lists.
Construct(readable) ==
    /\ pc = "init"
    /\ IF ~readable
       THEN /\ Raise("ValueError: cannot read image")
            /\ UNCHANGED <<steps, session>>
       ELSE /\ buf' = <<Pixels("source"), Pixels("source"), Pixels("preview")>>
            /\ image' = 1
            /\ original_image' = 2
            /\ display_image' = 3
            /\ corners' = <<>>
            /\ original_corners' = <<>>
            /\ steps' = Append(steps, "load")
            /\ pc' = "select_corners"
            /\ UNCHANGED <<error, window, left_clicks>>
    /\ UNCHANGED <<ret_corners, rectified, out_file>>

\* select_corners up to the blocking waitKey: window, callback, first imshow.
SelectCornersOpen ==
    /\ pc = "select_corners"
    /\ window' = buf[display_image]
    /\ pc' = "waitKey"
    /\ UNCHANGED <<error, steps, buf, image, original_image, display_image,
                   corners, original_corners, left_clicks, ret_corners,
                   rectified, out_file>>

\* Variant: the click handler draws on the loaded image.
DrawTargetSource == image

\* The buffer the click handler draws on.
DrawTarget == display_image

\* The drawing calls of one accepted click at (x, y), cs being self.corners
\* after the append.
ClickOverlay(cs, x, y) ==
    LET n == Len(cs)
    IN  <<DrawOp("circle", <<x, y>>, <<x, y>>, 0),
          DrawOp("putText", <<x + 10, y - 10>>, <<x + 10, y - 10>>, n)>>
        \o (IF n > 1 THEN <<DrawOp("line", cs[n - 1], cs[n], 0)>> ELSE <<>>)
        \o (IF n = 4 THEN <<DrawOp("line", cs[4], cs[1], 0)>> ELSE <<>>)

\* Variant: the capacity test is dropped.
AcceptsAnyClick(event, cs) == event = "EVENT_LBUTTONDOWN"

\* Variant: the capacity test is off by one.
AcceptsUpToFive(event, cs) == event = "EVENT_LBUTTONDOWN" /\ Len(cs) <= 4

\* The guard of mouse_callback.
Accepts(event, cs) == event = "EVENT_LBUTTONDOWN" /\ Len(cs) < 4

\* The source-space point of a preview-space click.
MapToSource(x, y) == <<PyInt(FMul(x, scale_factor)), PyInt(FMul(y, scale_factor))>>

\* mouse_callback, delivered while select_corners blocks in waitKey.
MouseCallback(event, x, y) ==
    /\ pc = "waitKey"
    /\ event = "EVENT_LBUTTONDOWN" => left_clicks < MaxClicks
    /\ left_clicks' = IF event = "EVENT_LBUTTONDOWN" THEN left_clicks + 1 ELSE left_clicks
    /\ IF Accepts(event, corners)
       THEN /\ corners' = Append(corners, <<x, y>>)
            /\ original_corners' = Append(original_corners, MapToSource(x, y))
            /\ buf' = Draw(buf, DrawTarget, ClickOverlay(corners', x, y))
            /\ window' = buf'[display_image]
       ELSE UNCHANGED <<corners, original_corners, buf, window>>
    /\ UNCHANGED <<pc, error, steps, image, original_image, display_image,
                   ret_corners, rectified, out_file>>

\* Variant: three points are taken to be enough.
SelectionCompleteAtThree(cs) == Len(cs) >= 3

\* The test select_corners makes once waitKey has returned.
SelectionComplete(cs) == Len(cs) = 4

\* What select_corners returns.
SelectResult == ToFloat32(original_corners)

\* A key press: waitKey returns, the windows close, select_corners checks the
\* count and returns the source-space corners or raises.
KeyPress ==
    /\ pc = "waitKey"
    /\ window' = NoPixels
    /\ IF SelectionComplete(corners)
       THEN /\ ret_corners' = SelectResult
            /\ steps' = Append(steps, "select")
            /\ pc' = "transform"
            /\ UNCHANGED error
       ELSE /\ Raise("ValueError: four corners needed")
            /\ UNCHANGED <<ret_corners, steps>>
    /\ UNCHANGED <<buf, image, original_image, display_image, corners,
                   original_corners, left_clicks, rectified, out_file>>

\* Variant: the edge lengths are taken from the corners' own norms.
ComputeOutputSizeFromOrigin(cs) ==
    <<Max(NormInt(cs[3], <<0, 0>>), NormInt(cs[2], <<0, 0>>)),
      Max(NormInt(cs[2], <<0, 0>>), NormInt(cs[1], <<0, 0>>))>>

\* The canvas size transform derives from the corners when output_size is None.
ComputeOutputSize(cs) ==
    <<Max(NormInt(cs[3], cs[4]), NormInt(cs[2], cs[1])),
      Max(NormInt(cs[2], cs[3]), NormInt(cs[1], cs[4]))>>

\* The destination quadrilateral for a canvas of w x h.
DstQuad(w, h) ==
    ToFloat32(<<<<0, 0>>, <<w - 1, 0>>, <<w - 1, h - 1>>, <<0, h - 1>>>>)

\* transform's own precondition.
TransformReady(ocs) == Len(ocs) = 4

\* Variant: a cv2 failure inside transform is swallowed.
AfterCvSwallowed(cv) == "imwrite"

\* Where interactive_transform goes after a cv2 outcome inside transform.
AfterCv(cv) == IF cv = "ok" THEN "imwrite" ELSE "raised"

\* transform(output_size): size, destination points, findHomography,
\* warpPerspective into a new buffer.
Transform(output_size, cv) ==
    /\ pc = "transform"
    /\ IF ~TransformReady(original_corners)
       THEN /\ Raise("ValueError: select four corners first")
            /\ UNCHANGED <<steps, buf, rectified>>
       ELSE LET cs   == ToFloat32(original_corners)
                size == IF output_size = None_ THEN ComputeOutputSize(cs)
                        ELSE output_size
            IN  /\ max_width' = size[1]
                /\ max_height' = size[2]
                /\ dst' = DstQuad(size[1], size[2])
                /\ H' = IF cv = "findHomography_raises" THEN None_ ELSE "H"
                /\ IF cv = "ok"
                   THEN /\ buf' = Append(buf, Pixels("warped"))
                        /\ warped' = Len(buf) + 1
                        /\ steps' = Append(steps, "rectify")
                        /\ UNCHANGED error
                   ELSE /\ error' = "cv2.error"
                        /\ UNCHANGED <<steps, buf, warped>>
                /\ pc' = AfterCv(cv)
    /\ UNCHANGED <<image, original_image, display_image, corners,
                   original_corners, window, left_clicks, ret_corners, out_file>>

\* cv2.imwrite(output_path, warped)
Save ==
    /\ pc = "imwrite"
    /\ out_file' = buf[warped]
    /\ steps' = Append(steps, "write")
    /\ pc' = "final_waitKey"
    /\ UNCHANGED <<error, session, ret_corners, rectified>>

\* The closing waitKey(0) and destroyAllWindows of interactive_transform.
FinalKey ==
    /\ pc = "final_waitKey"
    /\ pc' = "done"
    /\ UNCHANGED <<error, steps, session, ret_corners, rectified, out_file>>

Next ==
    \/ \E readable \in BOOLEAN : Construct(readable)
    \/ SelectCornersOpen
    \/ \E event \in Events, x \in ClickXs, y \in ClickYs : MouseCallback(event, x, y)
    \/ KeyPress
    \/ \E cv \in CvOutcomes : Transform(None_, cv)
    \/ Save
    \/ FinalKey

Spec == Init /\ [][Next]_vars

\* ================================================================ claims

Capacity == 4

SelectionEnded == image # 0 /\ pc \notin {"select_corners", "waitKey"}

\* The source-space point the specification assigns to a preview click.
Scaled(p) == <<2 * p[1], 2 * p[2]>>

\* C1: once four points are registered, a further left click changes neither
\* point list nor the preview overlay nor the window, and raises nothing.
C1_ExtraClicksIgnored ==
    [][(Len(corners) = Capacity /\ left_clicks' > left_clicks)
          => /\ corners' = corners
             /\ original_corners' = original_corners
             /\ buf' = buf
             /\ window' = window
             /\ pc' = pc
             /\ error' = error]_vars

C1_Witness == Len(corners) = Capacity /\ left_clicks > Capacity /\ pc = "waitKey"

\* C2: an accepted click at preview (x, y) appends exactly (2x, 2y) to the
\* source-space list; the click (50, 80) maps to (100, 160).
C2_ClickMapsToDouble ==
    [][/\ (left_clicks' > left_clicks /\ Len(corners) < Capacity)
             => \E x \in ClickXs, y \in ClickYs :
                   /\ corners' = Append(corners, <<x, y>>)
                   /\ original_corners' = Append(original_corners, <<2 * x, 2 * y>>)
       /\ MapToSource(50, 80) = <<100, 160>>]_vars

C2_Witness ==
    /\ Len(original_corners) = 2
    /\ corners[2] = <<FarX, FarY>>
    /\ original_corners[2] = <<2 * FarX, 2 * FarY>>

\* C3: when the key press ends collection, select_corners raises if fewer than
\* four points were registered and otherwise returns exactly the four
\* source-space points, in the order of the preview-space clicks.
C3_Finalize ==
    SelectionEnded =>
        IF Len(corners) < Capacity
        THEN /\ pc = "raised"
             /\ error = "ValueError: four corners needed"
             /\ ret_corners = <<>>
        ELSE /\ Len(ret_corners) = Capacity
             /\ \A i \in 1 .. Capacity : ret_corners[i] = Scaled(corners[i])
             /\ error # "ValueError: four corners needed"

C3_Witness ==
    /\ pc = "raised"
    /\ error = "ValueError: four corners needed"
    /\ Len(corners) = 3

Stages == <<"load", "select", "rectify", "write">>

IsPrefix(s, t) == Len(s) <= Len(t) /\ \A i \in 1 .. Len(s) : s[i] = t[i]

\* C4: the output file is written only after load, selection of four corners
\* and rectification succeeded in that order; a run that raised performed no
\* stage after the failing one and wrote no file.
C4_WriteOnlyAfterSuccess ==
    /\ IsPrefix(steps, Stages)
    /\ (error # None_) = (pc = "raised")
    /\ out_file # NoPixels
          => /\ steps = Stages
             /\ Len(original_corners) = Capacity
             /\ H # None_
             /\ warped # 0
             /\ out_file = buf[warped]
    /\ pc = "raised"
          => /\ out_file = NoPixels
             /\ "write" \notin {steps[i] : i \in 1 .. Len(steps)}
             /\ error = "ValueError: cannot read image" => steps = <<>>
             /\ error = "ValueError: four corners needed" => steps = <<"load">>
             /\ error = "cv2.error" => steps = <<"load", "select">>

C4_Witness == pc = "done" /\ out_file # NoPixels /\ steps = Stages

\* floor of the exact Euclidean distance between two integer points.
ExactFloorDist(p, q) ==
    ISqrt((p[1] - q[1]) * (p[1] - q[1]) + (p[2] - q[2]) * (p[2] - q[2]))

\* C5: with no explicit size, W = floor(max(|c2-c3|, |c1-c0|)) and
\* H = floor(max(|c1-c2|, |c0-c3|)) for the exact Euclidean edge lengths.
C5_ExactFloorSize ==
    max_width # -1 =>
        LET c == original_corners
        IN  /\ max_width = Max(ExactFloorDist(c[3], c[4]), ExactFloorDist(c[2], c[1]))
            /\ max_height = Max(ExactFloorDist(c[2], c[3]), ExactFloorDist(c[1], c[4]))

\* Translation vectors; the translated corners stay far below 2^24, the
\* range in which float32 holds every integer coordinate.
Shifts == {<<a, b>> : a \in -MaxShift .. MaxShift, b \in -MaxShift .. MaxShift}
              \cup {<<FarX, -FarY>>}

Translate(cs, v) == [i \in 1 .. Len(cs) |-> <<cs[i][1] + v[1], cs[i][2] + v[2]>>]

\* C6: when transform returns, the canvas size it derived is also the size
\* derived from the corner set translated by any vector.
C6_TranslationInvariant ==
    pc = "imwrite" =>
        \A v \in Shifts :
            ComputeOutputSize(ToFloat32(Translate(original_corners, v)))
                = <<max_width, max_height>>

C6_Witness ==
    /\ pc = "imwrite"
    /\ max_width > 1
    /\ max_height > 1
    /\ max_width # max_height
    /\ H # None_

\* C8: the full-resolution buffers (self.image, self.original_image) keep the
\* pixels they were loaded with through clicks and rectification; drawing
\* lands in the preview buffer and the warped image is a buffer of its own.
C8_SourceNeverModified ==
    image # 0 =>
        /\ buf[image] = Pixels("source")
        /\ buf[original_image] = Pixels("source")
        /\ display_image \notin {image, original_image}
        /\ warped # 0 => warped \notin {image, original_image, display_image}

C8_Witness ==
    /\ warped # 0
    /\ Len(buf[display_image].overlay) > Capacity
    /\ buf[warped] = Pixels("warped")

\* C9: the two point lists have the same length, at most four, the i-th
\* source point is the doubled i-th preview point, and a homography is only
\* ever computed from exactly four points.
C9_ListsInStep ==
    /\ Len(corners) = Len(original_corners)
    /\ Len(corners) \in 0 .. Capacity
    /\ \A i \in 1 .. Len(corners) : original_corners[i] = Scaled(corners[i])
    /\ (dst # <<>> \/ H # None_) => Len(original_corners) = Capacity

C9_Witness == H # None_ /\ Len(original_corners) = Capacity /\ left_clicks > Capacity

\* C10: the canvas size transform derives from four accepted clicks has
\* W >= 1 and H >= 1, so no destination point has a negative coordinate.
C10_PositiveCanvas ==
    max_width # -1 =>
        /\ max_width >= 1
        /\ max_height >= 1
        /\ \A i \in 1 .. Len(dst) : dst[i][1] >= 0 /\ dst[i][2] >= 0

====
